---------------------------- MODULE Spec2Model ----------------------------
(***************************************************************************)
(* Model of the media worker: the cycle-cut planner, the segment exporter, *)
(* the split orchestrator (process_audio_split), the video merge and the   *)
(* serverless request handler (rp_handler).                                *)
(*                                                                         *)
(* Times are exact integers counted in ticks of 1/Milli millisecond, so    *)
(* that durations with a sub-millisecond part exist and round(x, 3) has    *)
(* something to round.  Arithmetic is exact: the binary floating-point     *)
(* representation error of the Python floats is not modelled.              *)
(***************************************************************************)
EXTENDS Integers, Sequences, FiniteSets, TLC

(* Ticks in 1e-3 second: the value of eps, and the grid round(x, 3) rounds to. *)
Milli == 5

(* Bounds of the inputs that are enumerated. *)
MaxAudioDur == 48
MaxCycle == 21
MaxSegments == 3
MaxVideos == 3

Eps == Milli
Second == 1000 * Milli

-----------------------------------------------------------------------------
(* Python arithmetic *)

(* a // b on numbers: the floor of the quotient, for either sign of b. *)
FloorDiv(a, b) == IF b > 0 THEN a \div b ELSE (0 - a) \div (0 - b)

(* round(n / d) for d # 0: nearest integer, ties to the even one. *)
RoundHalfEven(n, d) ==
    LET nn == IF d > 0 THEN n ELSE 0 - n
        dd == IF d > 0 THEN d ELSE 0 - d
        q  == nn \div dd
        r  == nn - q * dd
    IN  IF 2 * r < dd THEN q
        ELSE IF 2 * r > dd THEN q + 1
        ELSE IF q % 2 = 0 THEN q ELSE q + 1

(* round(t, 3): t rounded to a whole number of milliseconds. *)
Round3(t) == RoundHalfEven(t, Milli) * Milli

Min2(a, b) == IF a < b THEN a ELSE b
Max2(a, b) == IF a > b THEN a ELSE b

-----------------------------------------------------------------------------
(* compute_equalized_cycle_cuts *)

LoopBodyWithoutGap(audio_dur, segments, cycle, max_k, i, k_prev) ==
    LET ideal_k      == RoundHalfEven(i * audio_dur, segments * cycle)
        max_allowed  == max_k - ((segments - 1) - i)
        min_allowed  == IF k_prev > max_allowed THEN max_allowed ELSE k_prev
    IN  [ k         |-> Max2(Min2(ideal_k, max_allowed), min_allowed),
          min_before |-> k_prev,
          max_allowed |-> max_allowed,
          collapsed |-> k_prev > max_allowed ]
LoopBodyReservingOneMore(audio_dur, segments, cycle, max_k, i, k_prev) ==
    LET ideal_k      == RoundHalfEven(i * audio_dur, segments * cycle)
        min_before   == k_prev + 1
        max_allowed  == max_k - (segments - i)
        min_allowed  == IF min_before > max_allowed THEN max_allowed ELSE min_before
    IN  [ k         |-> Max2(Min2(ideal_k, max_allowed), min_allowed),
          min_before |-> min_before,
          max_allowed |-> max_allowed,
          collapsed |-> min_before > max_allowed ]
(* One pass of the loop body for index i, given k_prev and max_k. *)
LoopBody(audio_dur, segments, cycle, max_k, i, k_prev) ==
    LET ideal_k      == RoundHalfEven(i * audio_dur, segments * cycle)
        min_before   == k_prev + 1
        max_allowed  == max_k - ((segments - 1) - i)
        min_allowed  == IF min_before > max_allowed THEN max_allowed ELSE min_before
    IN  [ k         |-> Max2(Min2(ideal_k, max_allowed), min_allowed),
          min_before |-> min_before,
          max_allowed |-> max_allowed,
          collapsed |-> min_before > max_allowed ]

RECURSIVE LoopFrom(_, _, _, _, _, _)
(* The iterations i, i+1, ..., segments-1 of the loop, as the list of their records. *)
LoopFrom(audio_dur, segments, cycle, max_k, i, k_prev) ==
    IF i > segments - 1 THEN << >>
    ELSE LET it == LoopBody(audio_dur, segments, cycle, max_k, i, k_prev)
         IN  << it >> \o LoopFrom(audio_dur, segments, cycle, max_k, i + 1, it.k)

NoPlan(kind) == [kind |-> kind, cuts |-> << >>, iters |-> << >>]

(* max_k = int((audio_dur - eps) // cycle), for cycle # 0 *)
MaxKNoEps(audio_dur, cycle) == FloorDiv(audio_dur, cycle)
MaxK(audio_dur, cycle) == FloorDiv(audio_dur - Eps, cycle)

(* Lines 71-87: everything after the segments == 1 shortcut. *)
GeneralCase(audio_dur, segments, cycle) ==
    IF cycle = 0 THEN NoPlan("ZeroDivisionError")
    ELSE LET max_k == MaxK(audio_dur, cycle)
         IN  IF max_k < segments - 1 THEN NoPlan("InsufficientCycles")
             ELSE LET iters == LoopFrom(audio_dur, segments, cycle, max_k, 1, 0)
                  IN  [ kind  |-> "ok",
                        cuts  |-> << 0 >>
                                  \o [j \in 1..Len(iters) |-> Round3(iters[j].k * cycle)]
                                  \o << Round3(audio_dur) >>,
                        iters |-> iters ]

compute_cuts_without_shortcut(audio_dur, segments, cycle) ==
    GeneralCase(audio_dur, segments, cycle)
(* The planner's outcome: kind "ok" with the cut list, or the exception raised. *)
compute_equalized_cycle_cuts(audio_dur, segments, cycle) ==
    IF segments = 1
    THEN [kind |-> "ok", cuts |-> << 0, audio_dur >>, iters |-> << >>]
    ELSE GeneralCase(audio_dur, segments, cycle)

-----------------------------------------------------------------------------
(* Text: a string is a sequence of tokens; "/" is the slash character and   *)
(* every other token is a run of characters without a slash.                *)

DigitChars == << "0", "1", "2", "3", "4", "5", "6", "7", "8", "9" >>

RECURSIVE Digits(_)
(* str(n) for n >= 0, one token per decimal digit. *)
Digits(n) == IF n < 10 THEN << DigitChars[n + 1] >>
             ELSE Digits(n \div 10) \o << DigitChars[(n % 10) + 1] >>

RECURSIVE Zeros(_)
Zeros(n) == IF n <= 0 THEN << >> ELSE << "0" >> \o Zeros(n - 1)

(* f"{n:0wd}": at least w digits, zero padded on the left, never truncated. *)
Pad(n, w) == Zeros(w - Len(Digits(n))) \o Digits(n)

RECURSIVE LStrip(_)
LStrip(s) == IF s # << >> /\ Head(s) = "/" THEN LStrip(Tail(s)) ELSE s

RECURSIVE RStrip(_)
RStrip(s) == IF s # << >> /\ s[Len(s)] = "/" THEN RStrip(SubSeq(s, 1, Len(s) - 1)) ELSE s

(* s.strip("/") *)
Strip(s) == RStrip(LStrip(s))

(* urllib.parse.quote on one path part: a space is percent-encoded. *)
Quote(tok) == IF tok = "my dir" THEN "my%20dir" ELSE tok

R2_PREFIX_DEFAULT == << "chunks", "/" >>
R2_PUBLIC_BASE_URL == << "https://cdn", "/" >>

(* join_public_url: split on "/", quote each part, join with "/" again. *)
join_public_url(base, key) ==
    RStrip(base) \o << "/" >> \o [j \in 1..Len(key) |-> Quote(key[j])]

(* hhmmss_ms(t) for t >= 0, as the text of the formatted time. *)
hhmmss_ms(t) ==
    LET whole == t \div Second
        ms    == RoundHalfEven(t - whole * Second, Milli)
        s     == whole % 60
        m     == (whole \div 60) % 60
        h     == whole \div 3600
    IN  Pad(h, 2) \o << ":" >> \o Pad(m, 2) \o << ":" >> \o Pad(s, 2)
        \o << "." >> \o Pad(ms, 3)

(* f"part_{i+1:03d}.{ext}" for the loop index i of export_segments. *)
PartName(i, ext) == << "part_" >> \o Pad(i + 1, 3) \o << ".", ext >>

SupportedCodecs == { "mp3", "aac", "copy" }

(* The codec arguments export_segments adds, "invalid" where it raises. *)
CodecArgs(codec, quality) ==
    IF codec = "mp3" THEN << "-acodec", "libmp3lame", "-q:a", quality >>
    ELSE IF codec = "aac" THEN << "-acodec", "aac", "-b:a", quality >>
    ELSE IF codec = "copy" THEN << "-c", "copy" >>
    ELSE << "invalid" >>

-----------------------------------------------------------------------------
(* State *)

VARIABLES
    pc,              \* position: "idle", a step of the pipeline, "done", "planner_returned"
    task,            \* the dispatched task, "direct" for a direct planner call
    segments,        \* process_audio_split parameters
    codec,
    ext,
    first_inverted,
    audio_url,
    video_duration,  \* << >> for None, << d >> for a number
    video_url,       \* << >> for None
    r2_prefix,       \* << >> for None
    audio_dur,       \* probed audio duration
    cycle,           \* resolved cycle
    plan,            \* outcome of compute_equalized_cycle_cuts
    local_files,     \* export_segments' outputs / merge_videos' local_inputs
    results,         \* the result list being built
    calls,           \* every external call made, in order (download, ffprobe, ffmpeg, upload)
    workspace,       \* the TemporaryDirectory: "none", "exists", "removed"
    files,           \* the files in the workspace
    response,        \* what rp_handler returned
    raised,          \* the exception that escaped rp_handler, "none" if none
    failure,         \* the step that failed, "none" if none
    videos,          \* merge_videos parameters
    reencode

vars == << pc, task, segments, codec, ext, first_inverted, audio_url, video_duration,
           video_url, r2_prefix, audio_dur, cycle, plan, local_files, results, calls,
           workspace, files, response, raised, failure, videos, reencode >>

params == << segments, codec, ext, first_inverted, audio_url, video_duration,
             video_url, r2_prefix >>

mergeParams == << videos, reencode >>

(* Inputs *)
HttpUrl == << "https://", "host", "/", "media" >>
FtpUrl == << "ftp://", "host", "/", "media" >>
Urls == { HttpUrl, FtpUrl }
Codecs == SupportedCodecs \cup { "wav" }
Exts == { "mp3", "m4a" }
Prefixes == { << >>, << "out" >>, << "/", "my dir", "/", "x", "/" >>, << "/" >> }
(* Durations the prober can report: below one millisecond, off the millisecond *)
(* grid, and just below a whole second.                                        *)
ProbedDurations == { 0, 3, MaxAudioDur - 7, MaxAudioDur, Second - 1, Second + 6 * Milli }
CycleValues == { 0 - Milli, 0, 3, Milli, MaxCycle }
Quality == "2"

NoResponse == [ok |-> FALSE, code |-> "", message |-> "", result |-> << >>]

(* _error(message, code) *)
ErrorResponse(message, code) ==
    [ok |-> FALSE, code |-> code, message |-> message, result |-> << >>]

OkResponse(result) == [ok |-> TRUE, code |-> "", message |-> "", result |-> result]

(* One external call, as the pipeline made it. *)
Call(kind, arg, idx, ss, t, ok) ==
    [kind |-> kind, arg |-> arg, idx |-> idx, ss |-> ss, t |-> t, ok |-> ok]

Init ==
    /\ pc = "idle"
    /\ task = ""
    /\ segments = 0
    /\ codec = "mp3"
    /\ ext = "mp3"
    /\ first_inverted = FALSE
    /\ audio_url = << >>
    /\ video_duration = << >>
    /\ video_url = << >>
    /\ r2_prefix = << >>
    /\ audio_dur = 0
    /\ cycle = 0
    /\ plan = NoPlan("none")
    /\ local_files = << >>
    /\ results = << >>
    /\ calls = << >>
    /\ workspace = "none"
    /\ files = {}
    /\ response = NoResponse
    /\ raised = "none"
    /\ failure = "none"
    /\ videos = << >>
    /\ reencode = TRUE

-----------------------------------------------------------------------------
(* A direct call of the planner, with any arguments of its signature. *)
PlannerCall ==
    /\ pc = "idle"
    /\ \E a \in 1..MaxAudioDur, s \in 1..MaxSegments, c \in (0 - MaxCycle)..MaxCycle :
          /\ audio_dur' = a
          /\ segments' = s
          /\ cycle' = c
          /\ plan' = compute_equalized_cycle_cuts(a, s, c)
    /\ pc' = "planner_returned"
    /\ task' = "direct"
    /\ UNCHANGED << codec, ext, first_inverted, audio_url, video_duration, video_url,
                    r2_prefix, local_files, results, calls, workspace, files, response,
                    raised, failure, videos, reencode >>

-----------------------------------------------------------------------------
TemporaryDirectoryExitOnReturnOnly(how) ==
    IF how = "return" THEN [workspace |-> "removed", files |-> {}]
    ELSE [workspace |-> "exists", files |-> files]
(* Leaving the "with tempfile.TemporaryDirectory()" block, by return or by *)
(* exception: the directory and everything in it is removed.               *)
TemporaryDirectoryExit(how) == [workspace |-> "removed", files |-> {}]

(* The handler's "except Exception": the controlled error it returns. *)
Caught(excType, text) == ErrorResponse(<< excType, text >>, "InternalError")

(* An exception leaves process_audio_split / merge_videos from inside the   *)
(* with block, and rp_handler's except clause turns it into the response.   *)
AbortInWorkspace(step, excType, text) ==
    /\ pc' = "done"
    /\ failure' = step
    /\ response' = Caught(excType, text)
    /\ workspace' = TemporaryDirectoryExit("exception").workspace
    /\ files' = TemporaryDirectoryExit("exception").files
    /\ UNCHANGED raised

(* rp_handler returns an error before anything was started. *)
Reject(step, resp) ==
    /\ pc' = "done"
    /\ failure' = step
    /\ response' = resp
    /\ UNCHANGED << raised, workspace, files >>

-----------------------------------------------------------------------------
(* rp_handler: the task field *)

RpHandlerTask ==
    /\ pc = "idle"
    /\ \E t \in { "absent", "blank", "nonstring", "unknown" } :
          /\ task' = t
          /\ IF t = "nonstring"
             THEN \* (5).strip(): raised before the try block is entered
                  /\ pc' = "done"
                  /\ failure' = "task_malformed"
                  /\ raised' = "AttributeError"
                  /\ UNCHANGED << response, workspace, files >>
             ELSE IF t \in { "absent", "blank" }
             THEN Reject("task_missing", ErrorResponse(<< "Falta 'task'" >>, "BadRequest"))
             ELSE Reject("task_invalid",
                         ErrorResponse(<< "Valor de 'task' invalido" >>, "BadRequest"))
    /\ UNCHANGED << params, mergeParams, audio_dur, cycle, plan, local_files, results, calls >>

-----------------------------------------------------------------------------
(* rp_handler, task split_audio, up to process_audio_split's first download *)

(* The request fields as they arrive: a number, or something int()/float() rejects. *)
RawSegments == { << >> } \cup { << n >> : n \in 0..MaxSegments }
RawVideoDurations ==
    { [kind |-> "none", val |-> 0], [kind |-> "bad", val |-> 0] }
    \cup { [kind |-> "num", val |-> c] : c \in CycleValues }

ValidateSegmentsOnly(segs, cd) ==
    IF segs < 1 THEN "segments debe ser >= 1" ELSE "ok"
(* process_audio_split's validation of its arguments: the error text, or "ok". *)
Validate(segs, cd) ==
    IF segs < 1 THEN "segments debe ser >= 1"
    ELSE IF cd \notin SupportedCodecs THEN "codec invalido (usa mp3|aac|copy)"
    ELSE "ok"

RpHandlerSplit ==
    /\ pc = "idle"
    /\ task' = "split_audio"
    /\ \E hasSegments \in BOOLEAN, hasAudioUrl \in BOOLEAN, segRaw \in RawSegments,
          url \in Urls, cd \in Codecs, ex \in Exts, fi \in BOOLEAN,
          vd \in RawVideoDurations, vu \in { << >> } \cup Urls, pre \in Prefixes :
          IF ~hasSegments THEN
              /\ Reject("segments_missing",
                        ErrorResponse(<< "Falta 'segments'" >>, "BadRequest"))
              /\ UNCHANGED params
          ELSE IF ~hasAudioUrl THEN
              /\ Reject("audio_url_missing",
                        ErrorResponse(<< "Falta 'audio_url'" >>, "BadRequest"))
              /\ UNCHANGED params
          ELSE IF segRaw = << >> THEN
              /\ Reject("convert", Caught("ValueError", "int()"))
              /\ UNCHANGED params
          ELSE IF vd.kind = "bad" THEN
              /\ Reject("convert", Caught("ValueError", "float()"))
              /\ UNCHANGED params
          ELSE
              /\ segments' = segRaw[1]
              /\ audio_url' = url
              /\ codec' = cd
              /\ ext' = ex
              /\ first_inverted' = fi
              /\ video_duration' = IF vd.kind = "num" THEN << vd.val >> ELSE << >>
              /\ video_url' = vu
              /\ r2_prefix' = IF pre # << >> THEN Strip(pre) \o << "/" >> ELSE << >>
              /\ IF Validate(segRaw[1], cd) # "ok"
                 THEN Reject("validation", Caught("ValueError", Validate(segRaw[1], cd)))
                 ELSE /\ pc' = "download_audio"
                      /\ workspace' = "exists"
                      /\ files' = {}
                      /\ UNCHANGED << failure, response, raised >>
    /\ UNCHANGED << mergeParams, audio_dur, cycle, plan, local_files, results, calls >>

-----------------------------------------------------------------------------
(* process_audio_split: download and probe *)

IsHttp(url) == url # << >> /\ Head(url) \in { "http://", "https://" }

(* download_to_path(url, dst): what it can do, given the url. *)
DownloadOutcomes(url) ==
    IF IsHttp(url) THEN { "ok", "HTTPError", "too_large" } ELSE { "bad_scheme" }

DownloadError(outcome) ==
    IF outcome = "HTTPError" THEN << "HTTPError", "raise_for_status" >>
    ELSE IF outcome = "too_large" THEN << "ValueError", "Archivo supera el limite" >>
    ELSE << "ValueError", "URL debe ser http(s)" >>

(* The calls after a download: a request is sent unless the scheme is refused. *)
AfterDownload(url, outcome) ==
    IF outcome = "bad_scheme" THEN calls
    ELSE Append(calls, Call("download", url, 0, << >>, << >>, outcome = "ok"))

DownloadAudio ==
    /\ pc = "download_audio"
    /\ \E outcome \in DownloadOutcomes(audio_url) :
          /\ calls' = AfterDownload(audio_url, outcome)
          /\ IF outcome = "ok"
             THEN /\ pc' = "probe_audio"
                  /\ files' = files \cup { << "in_audio" >> }
                  /\ UNCHANGED << workspace, response, raised, failure >>
             ELSE AbortInWorkspace("download", DownloadError(outcome)[1],
                                   DownloadError(outcome)[2])
    /\ UNCHANGED << task, params, mergeParams, audio_dur, cycle, plan, local_files, results >>

CycleRejectedIfNegative(c) == c < 0
(* The orchestrator's guard on the resolved cycle. *)
CycleRejected(c) == c <= 0

(* Lines 196-203: the cycle check, then the planner, for the resolved cycle c. *)
ResolveAndPlan(d, c) ==
    /\ cycle' = c
    /\ IF CycleRejected(c)
       THEN /\ AbortInWorkspace("invalid_cycle", "ValueError",
                                "La duracion del ciclo debe ser > 0")
            /\ UNCHANGED plan
       ELSE /\ plan' = compute_equalized_cycle_cuts(d, segments, c)
            /\ IF plan'.kind = "ok"
               THEN /\ pc' = "export"
                    /\ UNCHANGED << workspace, files, response, raised, failure >>
               ELSE AbortInWorkspace("planning", "RuntimeError", plan'.kind)

ProbeAudio ==
    /\ pc = "probe_audio"
    /\ \E out \in { << >> } \cup { << d >> : d \in ProbedDurations } :
          /\ calls' = Append(calls, Call("ffprobe", << "in_audio" >>, 0, << >>, << >>,
                                         out # << >>))
          /\ IF out = << >>
             THEN /\ AbortInWorkspace("probe", "RuntimeError", "ffprobe error (audio)")
                  /\ UNCHANGED << audio_dur, cycle, plan >>
             ELSE /\ audio_dur' = out[1]
                  /\ IF video_duration # << >>
                     THEN ResolveAndPlan(out[1], video_duration[1])
                     ELSE IF video_url = << >>
                     THEN /\ AbortInWorkspace("cycle_source", "ValueError",
                                              "Pasa 'video_url' o 'video_duration'")
                          /\ UNCHANGED << cycle, plan >>
                     ELSE /\ pc' = "download_video"
                          /\ UNCHANGED << cycle, plan, workspace, files, response,
                                          raised, failure >>
    /\ UNCHANGED << task, params, mergeParams, local_files, results >>

DownloadVideo ==
    /\ pc = "download_video"
    /\ \E outcome \in DownloadOutcomes(video_url) :
          /\ calls' = AfterDownload(video_url, outcome)
          /\ IF outcome = "ok"
             THEN /\ pc' = "probe_video"
                  /\ files' = files \cup { << "in_video" >> }
                  /\ UNCHANGED << workspace, response, raised, failure >>
             ELSE AbortInWorkspace("download", DownloadError(outcome)[1],
                                   DownloadError(outcome)[2])
    /\ UNCHANGED << task, params, mergeParams, audio_dur, cycle, plan, local_files, results >>

ProbeVideo ==
    /\ pc = "probe_video"
    /\ \E out \in { << >> } \cup { << c >> : c \in CycleValues } :
          /\ calls' = Append(calls, Call("ffprobe", << "in_video" >>, 0, << >>, << >>,
                                         out # << >>))
          /\ IF out = << >>
             THEN /\ AbortInWorkspace("probe", "RuntimeError", "ffprobe error (video)")
                  /\ UNCHANGED << cycle, plan >>
             ELSE ResolveAndPlan(audio_dur, out[1])
    /\ UNCHANGED << task, params, mergeParams, audio_dur, local_files, results >>

-----------------------------------------------------------------------------
(* export_segments: one transcoder run per adjacent pair of cuts *)

OutDir == << "chunks", "/" >>

ExportNextIgnoringFailure(ok, last) ==
    IF last THEN "upload" ELSE "export"
(* Where the export loop goes after the transcoder has run for a segment. *)
ExportNext(ok, last) ==
    IF ~ok THEN "abort" ELSE IF last THEN "upload" ELSE "export"

ExportSegment ==
    /\ pc = "export"
    /\ LET i        == Len(local_files)          \* the loop index, from 0
           ss       == plan.cuts[i + 1]
           to       == plan.cuts[i + 2]
           dur      == Max2(0, to - ss)
           out_file == OutDir \o PartName(i, ext)
           last     == i + 1 = Len(plan.cuts) - 1
       IN  IF CodecArgs(codec, Quality) = << "invalid" >>
           THEN /\ AbortInWorkspace("export", "RuntimeError", "ffmpeg error: codec invalido")
                /\ UNCHANGED << calls, local_files >>
           ELSE \E ok \in BOOLEAN :
                  /\ calls' = Append(calls, Call("ffmpeg", out_file, i + 1,
                                                 hhmmss_ms(ss), hhmmss_ms(dur), ok))
                  /\ IF ExportNext(ok, last) = "abort"
                     THEN /\ AbortInWorkspace("export", "RuntimeError", "ffmpeg error")
                          /\ UNCHANGED local_files
                     ELSE /\ local_files' = Append(local_files, out_file)
                          /\ files' = files \cup { out_file }
                          /\ pc' = ExportNext(ok, last)
                          /\ UNCHANGED << workspace, response, raised, failure >>
    /\ UNCHANGED << task, params, mergeParams, audio_dur, cycle, plan, results >>

-----------------------------------------------------------------------------
(* process_audio_split: publish each exported file and build the result list *)

RECURSIVE BaseName(_)
(* Path.name: what follows the last slash. *)
BaseName(path) ==
    IF path = << >> \/ path[Len(path)] = "/" THEN << >>
    ELSE BaseName(SubSeq(path, 1, Len(path) - 1)) \o << path[Len(path)] >>

(* prefix = (r2_prefix.strip("/") + "/") if r2_prefix else R2_PREFIX_DEFAULT *)
KeyPrefix(given) == IF given # << >> THEN Strip(given) \o << "/" >> ELSE R2_PREFIX_DEFAULT

StartWithInvertedIgnoringFlag(seg_start, c, flag) ==
    FloorDiv(seg_start, c) % 2 = 1
(* Lines 220-224: the phase flag of the segment that starts at seg_start. *)
StartWithInverted(seg_start, c, flag) ==
    LET clips_passed == FloorDiv(seg_start, c)
        inverted     == clips_passed % 2 = 1
    IN  IF flag THEN ~inverted ELSE inverted

UploadSegment ==
    /\ pc = "upload"
    /\ LET idx        == Len(results) + 1        \* enumerate(local_files, start=1)
           local_path == local_files[idx]
           key        == KeyPrefix(r2_prefix) \o BaseName(local_path)
           entry      == [ audio |-> join_public_url(R2_PUBLIC_BASE_URL, key),
                           key   |-> key,
                           start_with_inverted |->
                               StartWithInverted(plan.cuts[idx], cycle, first_inverted) ]
       IN  \E ok \in BOOLEAN :
              /\ calls' = Append(calls, Call("upload", key, idx, << >>, << >>, ok))
              /\ IF ~ok
                 THEN /\ AbortInWorkspace("upload", "ClientError", "put_object")
                      /\ UNCHANGED results
                 ELSE /\ results' = Append(results, entry)
                      /\ IF idx = Len(local_files)
                         THEN /\ pc' = "done"
                              /\ response' = OkResponse(results')
                              /\ workspace' = TemporaryDirectoryExit("return").workspace
                              /\ files' = TemporaryDirectoryExit("return").files
                              /\ UNCHANGED << raised, failure >>
                         ELSE /\ pc' = "upload"
                              /\ UNCHANGED << workspace, files, response, raised, failure >>
    /\ UNCHANGED << task, params, mergeParams, audio_dur, cycle, plan, local_files >>

-----------------------------------------------------------------------------
(* rp_handler, task merge_videos, and merge_videos itself *)

RECURSIVE UrlLists(_)
(* The lists of n urls. *)
UrlLists(n) == IF n = 0 THEN { << >> }
               ELSE { Append(l, u) : l \in UrlLists(n - 1), u \in Urls }

RawVideos == { [isList |-> FALSE, urls |-> << >>] }
             \cup { [isList |-> TRUE, urls |-> l] :
                      l \in UNION { UrlLists(n) : n \in 0..MaxVideos } }

RpHandlerMerge ==
    /\ pc = "idle"
    /\ task' = "merge_videos"
    /\ \E vids \in RawVideos, re \in BOOLEAN, pre \in Prefixes :
          IF ~vids.isList \/ Len(vids.urls) < 2
          THEN /\ Reject("videos_invalid",
                         ErrorResponse(<< "Proporciona al menos dos URLs" >>, "BadRequest"))
               /\ UNCHANGED << mergeParams, r2_prefix >>
          ELSE /\ videos' = vids.urls
               /\ reencode' = re
               /\ r2_prefix' = IF pre # << >> THEN Strip(pre) ELSE << >>
               /\ pc' = "merge_download"
               /\ workspace' = "exists"
               /\ files' = {}
               /\ UNCHANGED << failure, response, raised >>
    /\ UNCHANGED << segments, codec, ext, first_inverted, audio_url, video_duration,
                    video_url, audio_dur, cycle, plan, local_files, results, calls >>

MergeDownload ==
    /\ pc = "merge_download"
    /\ LET i == Len(local_files) + 1
           p == << "in_" >> \o Pad(i, 3) \o << ".mp4" >>
       IN  \E outcome \in DownloadOutcomes(videos[i]) :
              /\ calls' = AfterDownload(videos[i], outcome)
              /\ IF outcome = "ok"
                 THEN /\ local_files' = Append(local_files, p)
                      /\ files' = files \cup { p }
                                  \cup (IF i = Len(videos) THEN { << "inputs.txt" >> } ELSE {})
                      /\ pc' = IF i = Len(videos) THEN "merge_concat" ELSE "merge_download"
                      /\ UNCHANGED << workspace, response, raised, failure >>
                 ELSE /\ AbortInWorkspace("download", DownloadError(outcome)[1],
                                          DownloadError(outcome)[2])
                      /\ UNCHANGED local_files
    /\ UNCHANGED << task, params, mergeParams, audio_dur, cycle, plan, results >>

OutName == << "joined_", "uuid", ".mp4" >>

MergeConcat ==
    /\ pc = "merge_concat"
    /\ \E ok \in BOOLEAN :
          /\ calls' = Append(calls, Call("ffmpeg", OutName, 0, << >>, << >>, ok))
          /\ IF ok
             THEN /\ pc' = "merge_upload"
                  /\ files' = files \cup { OutName }
                  /\ UNCHANGED << workspace, response, raised, failure >>
             ELSE AbortInWorkspace("merge", "RuntimeError",
                                   IF reencode THEN "ffmpeg no pudo unir los MP4"
                                   ELSE "ffmpeg no pudo unir en modo copy")
    /\ UNCHANGED << task, params, mergeParams, audio_dur, cycle, plan, local_files, results >>

MergeUpload ==
    /\ pc = "merge_upload"
    /\ LET key == KeyPrefix(r2_prefix) \o OutName
       IN  \E ok \in BOOLEAN :
              /\ calls' = Append(calls, Call("upload", key, 0, << >>, << >>, ok))
              /\ IF ok
                 THEN /\ pc' = "done"
                      /\ results' = << [ audio |-> join_public_url(R2_PUBLIC_BASE_URL, key),
                                         key   |-> key,
                                         start_with_inverted |-> FALSE ] >>
                      /\ response' = OkResponse(results')
                      /\ workspace' = TemporaryDirectoryExit("return").workspace
                      /\ files' = TemporaryDirectoryExit("return").files
                      /\ UNCHANGED << raised, failure >>
                 ELSE /\ AbortInWorkspace("upload", "ClientError", "put_object")
                      /\ UNCHANGED results
    /\ UNCHANGED << task, params, mergeParams, audio_dur, cycle, plan, local_files >>

-----------------------------------------------------------------------------
Next ==
    \/ PlannerCall
    \/ RpHandlerTask
    \/ RpHandlerSplit
    \/ DownloadAudio
    \/ ProbeAudio
    \/ DownloadVideo
    \/ ProbeVideo
    \/ ExportSegment
    \/ UploadSegment
    \/ RpHandlerMerge
    \/ MergeDownload
    \/ MergeConcat
    \/ MergeUpload

Spec == Init /\ [][Next]_vars

-----------------------------------------------------------------------------
(* Properties *)

(* The planner has been called and has come back (by return or by exception). *)
PlannerCalled == plan.kind # "none"
PlannerReturned == plan.kind = "ok"

(* process_audio_split has been called with its arguments bound. *)
SplitCalled == task = "split_audio" /\ audio_url # << >>

StrictlyIncreasing(seq) == \A j \in 1..(Len(seq) - 1) : seq[j] < seq[j + 1]

(* Every interior cut is k * cycle rounded to 3 decimals, for an integer k >= 1. *)
InteriorOnCycle(cuts, c, bound) ==
    \A j \in 2..(Len(cuts) - 1) : \E k \in 1..bound : cuts[j] = Round3(k * c)

CutPlanShape(minCycle) ==
    (PlannerReturned /\ audio_dur > 0 /\ cycle >= minCycle /\ segments > 1)
        => /\ Len(plan.cuts) = segments + 1
           /\ plan.cuts[1] = 0
           /\ plan.cuts[Len(plan.cuts)] = Round3(audio_dur)
           /\ StrictlyIncreasing(plan.cuts)
           /\ InteriorOnCycle(plan.cuts, cycle, audio_dur)

Infeasible == cycle > 0 /\ FloorDiv(audio_dur - Eps, cycle) < segments - 1

(* C2, as claimed: whenever floor((audio_dur - 0.001) / cycle) < segments - 1 the *)
(* planner fails with the insufficient-cycles error, for every segments >= 1 and  *)
(* every cycle > 0.                                                               *)
C2_AsClaimed ==
    (PlannerCalled /\ segments >= 1 /\ Infeasible) => plan.kind = "InsufficientCycles"

(* C2, amended: the same for every segments >= 2; with segments = 1 the planner   *)
(* returns [0, audio_dur] without checking feasibility.                          *)
C2_Infeasible ==
    (PlannerCalled /\ segments >= 2 /\ Infeasible)
        => (plan.kind = "InsufficientCycles" /\ plan.cuts = << >>)

(* The planner refuses at the boundary: one cycle boundary short of segments-1. *)
C2_Witness ==
    /\ PlannerCalled /\ segments >= 2 /\ cycle > 0
    /\ FloorDiv(audio_dur - Eps, cycle) = segments - 2
    /\ FloorDiv(audio_dur, cycle) = segments - 1
    /\ plan.kind = "InsufficientCycles"

(* C3, as claimed: the planner called with cycle <= 0 fails with the invalid-     *)
(* cycle error, for every segments >= 1 and every audio_dur, and never returns a  *)
(* cut plan.                                                                      *)
C3_AsClaimed ==
    (PlannerCalled /\ segments >= 1 /\ cycle <= 0) => plan.kind = "InvalidCycle"

(* The cycle of a split request has been resolved: given, or probed from the video. *)
CycleResolved ==
    /\ SplitCalled
    /\ \E p \in 1..Len(calls) :
          /\ calls[p].kind = "ffprobe" /\ calls[p].ok
          /\ calls[p].arg = (IF video_duration # << >> THEN << "in_audio" >>
                             ELSE << "in_video" >>)

InvalidCycleError ==
    ErrorResponse(<< "ValueError", "La duracion del ciclo debe ser > 0" >>, "InternalError")

(* C3, amended: a split request whose resolved cycle is <= 0 fails in             *)
(* process_audio_split with the invalid-cycle error, for every segments >= 1 and  *)
(* every audio_dur, before the planner is called: a request never has a plan      *)
(* computed for a non-positive cycle.                                             *)
C3_InvalidCycle ==
    /\ (CycleResolved /\ cycle <= 0)
          => /\ pc = "done" /\ failure = "invalid_cycle"
             /\ response = InvalidCycleError
             /\ ~PlannerCalled /\ results = << >>
    /\ (SplitCalled /\ PlannerCalled) => cycle > 0

(* A request with several segments and a probed video of duration 0 is refused. *)
C3_Witness ==
    /\ CycleResolved /\ cycle = 0 /\ segments >= 2 /\ video_duration = << >>
    /\ audio_dur > 0 /\ failure = "invalid_cycle"

(* C4: for every audio_dur > 0 and segments = 1 the planner returns exactly       *)
(* [0, audio_dur], whatever the cycle: no interior cut, no rounding, no cycle     *)
(* constraint and no feasibility check.                                           *)
C4_SingleSegment ==
    (PlannerCalled /\ segments = 1 /\ audio_dur > 0)
        => (plan.kind = "ok" /\ plan.cuts = << 0, audio_dur >>)

(* One segment, a non-positive cycle and a duration below eps, off the grid. *)
C4_Witness ==
    /\ PlannerCalled /\ segments = 1 /\ cycle <= 0
    /\ audio_dur > 0 /\ audio_dur < Eps
    /\ plan.cuts = << 0, audio_dur >>

-----------------------------------------------------------------------------
(* Properties of the split pipeline and of the handler *)

CallsOfKind(kind) == { p \in 1..Len(calls) : calls[p].kind = kind }

(* C5: an invalid split request (codec not one of mp3/aac/copy, or segments < 1)  *)
(* is rejected before any download, prober or transcoder run and upload: it ends  *)
(* in the validation failure with no external call made and no workspace created. *)
C5_RejectedBeforeIO ==
    /\ (SplitCalled /\ (codec \notin SupportedCodecs \/ segments < 1))
          => /\ pc = "done" /\ failure = "validation"
             /\ response.ok = FALSE
             /\ calls = << >>
             /\ workspace = "none" /\ files = {}
    /\ failure = "validation" => calls = << >>

(* A request with a valid segment count and an unsupported codec was rejected. *)
C5_Witness ==
    /\ SplitCalled /\ codec = "wav" /\ segments >= 1 /\ IsHttp(audio_url)
    /\ pc = "done" /\ failure = "validation"

(* C6: the temporary workspace of a split request no longer exists once           *)
(* process_audio_split has exited, on every exit path (return, validation,        *)
(* download, probe, planner, export or upload failure).                           *)
C6_WorkspaceRemoved ==
    (task = "split_audio" /\ pc = "done") => (workspace # "exists" /\ files = {})

(* An upload failed after a segment was published and files had been exported. *)
C6_Witness ==
    /\ task = "split_audio" /\ pc = "done" /\ failure = "upload"
    /\ Len(results) >= 1 /\ Len(local_files) >= 2
    /\ workspace = "removed"

(* C7: every result entry i of a split has start_with_inverted equal to           *)
(* (floor(t / c) mod 2 = 1) for t = cuts[i-1] and the resolved cycle c > 0 when   *)
(* first_inverted is false, and to the negation of that when it is true.          *)
C7_Phase ==
    (task = "split_audio") =>
        \A i \in 1..Len(results) :
            LET t   == plan.cuts[i]
                odd == (t \div cycle) % 2 = 1
            IN  /\ cycle > 0
                /\ results[i].start_with_inverted = (odd # first_inverted)

(* A successful split with the flag set, one segment starting in an odd pass and *)
(* one in an even pass.                                                          *)
C7_Witness ==
    /\ task = "split_audio" /\ pc = "done" /\ response.ok /\ first_inverted
    /\ \E i, j \in 1..Len(results) :
          /\ (plan.cuts[i] \div cycle) % 2 = 1 /\ ~results[i].start_with_inverted
          /\ (plan.cuts[j] \div cycle) % 2 = 0 /\ results[j].start_with_inverted

(* C8, as claimed: every failure of a request handled by rp_handler (task field   *)
(* missing or malformed, request fields missing or not convertible, validation,   *)
(* download, probe, planning, export or upload failure) surfaces as a returned    *)
(* {ok: false, error: {code, message}}; no exception escapes rp_handler and no    *)
(* request in which a step failed gets ok: true.                                  *)
C8_AsClaimed ==
    (pc = "done") =>
        /\ raised = "none"
        /\ failure # "none" =>
              /\ response.ok = FALSE
              /\ response.code \in { "BadRequest", "InternalError" }
              /\ response.message # << >>
        /\ response.ok => failure = "none"

-----------------------------------------------------------------------------
(* Reading a time of the form HH:MM:SS.fff back: the digits after the point are *)
(* a decimal fraction of a second.                                             *)

RECURSIVE IndexOf(_, _, _)
IndexOf(s, tok, from) ==
    IF from > Len(s) THEN 0 ELSE IF s[from] = tok THEN from ELSE IndexOf(s, tok, from + 1)

DigitValue(tok) == CHOOSE d \in 0..9 : DigitChars[d + 1] = tok

RECURSIVE NumberValue(_)
NumberValue(s) ==
    IF s = << >> THEN 0
    ELSE 10 * NumberValue(SubSeq(s, 1, Len(s) - 1)) + DigitValue(s[Len(s)])

RECURSIVE Pow10(_)
Pow10(n) == IF n = 0 THEN 1 ELSE 10 * Pow10(n - 1)

TimeValue(text) ==
    LET c1   == IndexOf(text, ":", 1)
        c2   == IndexOf(text, ":", c1 + 1)
        dot  == IndexOf(text, ".", c2 + 1)
        h    == NumberValue(SubSeq(text, 1, c1 - 1))
        m    == NumberValue(SubSeq(text, c1 + 1, c2 - 1))
        sec  == NumberValue(SubSeq(text, c2 + 1, dot - 1))
        frac == SubSeq(text, dot + 1, Len(text))
    IN  (h * 3600 + m * 60 + sec) * Second
        + (NumberValue(frac) * Second) \div Pow10(Len(frac))

(* a and b are the same time to the millisecond the format carries. *)
SameToMilli(a, b) == 2 * (a - b) <= Milli /\ 2 * (b - a) <= Milli

(* C9, as claimed: a successful split returns exactly `segments` entries in cut   *)
(* order; the i-th is the segment cut from [cuts[i-1], cuts[i]), exported as      *)
(* part_{i:03d}.<ext> and published under prefix + that name; exports happen in   *)
(* increasing i, publishes happen in increasing i, none twice.                    *)
C9_AsClaimed ==
    (task = "split_audio" /\ pc = "done" /\ response.ok) =>
        LET exports == SelectSeq(calls, LAMBDA c : c.kind = "ffmpeg")
            uploads == SelectSeq(calls, LAMBDA c : c.kind = "upload")
        IN  /\ Len(results) = segments
            /\ response.result = results
            /\ Len(exports) = segments /\ Len(uploads) = segments
            /\ \A i \in 1..segments :
                  /\ exports[i].idx = i /\ exports[i].ok
                  /\ exports[i].arg = OutDir \o PartName(i - 1, ext)
                  /\ SameToMilli(TimeValue(exports[i].ss), plan.cuts[i])
                  /\ SameToMilli(TimeValue(exports[i].t), plan.cuts[i + 1] - plan.cuts[i])
                  /\ uploads[i].idx = i /\ uploads[i].ok
                  /\ uploads[i].arg = KeyPrefix(r2_prefix) \o PartName(i - 1, ext)
                  /\ results[i].key = uploads[i].arg

(* C10: if the transcoder fails on segment j, the request aborts there: no        *)
(* transcoder run follows for a later segment, the failing run is not retried,    *)
(* no segment (the exported 1..j-1 included) is ever uploaded, and the request    *)
(* ends in failure with no result list.                                           *)
C10_ExportAborts ==
    \A p \in 1..Len(calls) :
        (task = "split_audio" /\ calls[p].kind = "ffmpeg" /\ ~calls[p].ok) =>
            /\ p = Len(calls)
            /\ CallsOfKind("upload") = {}
            /\ Cardinality(CallsOfKind("ffmpeg")) = calls[p].idx
            /\ \A q \in CallsOfKind("ffmpeg") : q < p => calls[q].ok /\ calls[q].idx < calls[p].idx
            /\ pc = "done" /\ failure = "export"
            /\ response.ok = FALSE /\ response.result = << >> /\ results = << >>

(* The transcoder failed on a later segment, after earlier ones were exported. *)
C10_Witness ==
    /\ task = "split_audio" /\ pc = "done" /\ failure = "export"
    /\ \E p \in 1..Len(calls) :
          /\ calls[p].kind = "ffmpeg" /\ ~calls[p].ok /\ calls[p].idx >= 2
          /\ calls[p].idx < segments

-----------------------------------------------------------------------------
(* The chosen index of iteration j, and the one chosen before it (0 at first). *)
ChosenK(j) == plan.iters[j].k
PreviousK(j) == IF j = 1 THEN 0 ELSE plan.iters[j - 1].k

(* C11: for every input with segments > 1 and cycle > 0 that passes the           *)
(* feasibility check (max_k >= segments-1), at every loop iteration i in          *)
(* 1..segments-1 the bounds satisfy min_allowed = k_prev + 1 <= max_allowed =     *)
(* max_k - ((segments-1) - i) before any adjustment, so the collapse branch is    *)
(* never taken, and the chosen indices satisfy                                    *)
(* 1 <= k_1 < k_2 < ... < k_{segments-1} <= max_k.                                *)
C11_NoCollapse ==
    (PlannerReturned /\ segments > 1 /\ cycle > 0) =>
        LET max_k == FloorDiv(audio_dur - Eps, cycle)
        IN  /\ max_k >= segments - 1
            /\ Len(plan.iters) = segments - 1
            /\ \A i \in 1..(segments - 1) :
                  /\ plan.iters[i].min_before = PreviousK(i) + 1
                  /\ plan.iters[i].max_allowed = max_k - ((segments - 1) - i)
                  /\ plan.iters[i].min_before <= plan.iters[i].max_allowed
                  /\ ~plan.iters[i].collapsed
                  /\ PreviousK(i) < ChosenK(i)
                  /\ 1 <= ChosenK(i) /\ ChosenK(i) <= max_k

(* The tightest packing: exactly segments-1 cycle boundaries for segments-1 cuts, *)
(* so that min_allowed = max_allowed at every iteration, and the ideal index of   *)
(* the first cut lies above its bound.                                            *)
C11_Witness ==
    /\ PlannerReturned /\ segments = MaxSegments /\ cycle > 0
    /\ FloorDiv(audio_dur - Eps, cycle) = segments - 1
    /\ \A i \in 1..(segments - 1) :
          /\ plan.iters[i].min_before = plan.iters[i].max_allowed
          /\ ChosenK(i) = i
    /\ RoundHalfEven(audio_dur, segments * cycle) > 1

=============================================================================
